---- MODULE Spec2Model ----
(***************************************************************************)
(* Model of usgs_riverdata/__init__.py: the gage class (check_params,      *)
(* retrieve, _retrieve_data, _json_to_dataframe) and the retrieve_flow     *)
(* helper.  The interpreter is single threaded, so each call is one        *)
(* action; the server's answer to urlopen is an input of the call.         *)
(***************************************************************************)
EXTENDS Integers, Sequences, FiniteSets, TLC

\* Number of gage objects the caller keeps alive.
MaxGages == 1

\* Python's None, and the marker for a key that is not in a dict.
None == "None"
Absent == "<absent>"

\* Keys of url_params: the three names check_params may look up in it and the
\* three keys _retrieve_data writes.
Keys == {"site_code", "startDT", "endDT", "format", "sites", "period"}
UserKeys == {"site_code", "startDT", "endDT"}

\* Values the caller uses.
SiteCodes == {None, "s1"}
GageIds == {None, "", "s1"}
Periods == {None, "P7D"}
StartDates == {None, "d1"}
EndDates == {None, "d2"}
UserValue(k) == CASE k = "site_code" -> "s1" [] k = "startDT" -> "d1" [] OTHER -> "d2"

\* What urlopen / the server can answer: a transport failure, an HTTP error
\* status, a body that is no JSON, JSON without the value.timeSeries[0]
\* .values[0].value path, or JSON holding at that path a list of records
\* ("r1", "r2") or something pandas.DataFrame rejects ("scalar").
Records == {"r1", "r2"}
Responses == {"URLError", "HTTPError", "notjson", "nopath", "scalar"} \cup Records

\* The literal {} of the def line: one dict object, made when the class body
\* runs and handed to every gage constructed without url_params.
DefaultDict == 0
EmptyDict == [k \in Keys |-> Absent]

\* data_frame is None (<<>>) or the frame pandas builds from a time series.
NoFrame == <<>>
DataFrame(ts) == <<ts>>
DataFrameRaises(ts) == ts \notin Records

\* Python truth value of None / str, and of a module object.
Truthy(v) == v # None /\ v # ""
ModuleIsTrue == TRUE

\* The default of time_period in gage.__init__.
DefaultPeriod == "P7D"

VARIABLES
    pandas,     \* TRUE iff "import pandas" succeeded, so the name pandas is bound
    gages,      \* the gage objects the caller holds, in order of construction
    dicts,      \* the dict objects: dicts[0] is the shared default, dicts[i] is gage i's own
    last        \* the most recent call and what it did

vars == <<pandas, gages, dicts, last>>

Idle ==
    [op |-> "none", gage |-> 0, return_pandas |-> FALSE, gage_id |-> None,
     err |-> "ok", urlopen |-> 0, constructed |-> FALSE]

Init ==
    /\ pandas \in BOOLEAN
    /\ gages = <<>>
    /\ dicts = [i \in 0..MaxGages |-> EmptyDict]
    /\ last = Idle

\* gage.__init__
NewObject(site_code, time_period, url_params) ==
    [site_code |-> site_code, time_series |-> None, time_period |-> time_period,
     url_params |-> url_params, data_frame |-> NoFrame, startDT |-> None, endDT |-> None]

NewGage(site_code, time_period, own) ==
    /\ Len(gages) < MaxGages
    /\ gages' = Append(gages,
                       NewObject(site_code, time_period,
                                 IF own THEN Len(gages) + 1 ELSE DefaultDict))
    /\ last' = Idle
    /\ UNCHANGED <<pandas, dicts>>

\* The caller assigns an attribute of a gage (g.startDT = ...).
SetAttr(g, a, v) ==
    /\ g \in 1..Len(gages)
    /\ gages[g][a] # v
    /\ gages' = [gages EXCEPT ![g][a] = v]
    /\ last' = Idle
    /\ UNCHANGED <<pandas, dicts>>

\* The caller supplies a key in the gage's url_params.
SetParam(g, k) ==
    /\ g \in 1..Len(gages)
    /\ dicts[gages[g].url_params][k] = Absent
    /\ dicts' = [dicts EXCEPT ![gages[g].url_params][k] = UserValue(k)]
    /\ last' = Idle
    /\ UNCHANGED <<pandas, gages>>

\* check_params with the membership test inverted ("param in self.url_params").
RECURSIVE check_params_in(_, _, _)
check_params_in(self, url_params, params) ==
    IF params = <<>> THEN "ok"
    ELSE IF self[Head(params)] = None /\ url_params[Head(params)] # Absent
         THEN "AttributeError:" \o Head(params)
         ELSE check_params_in(self, url_params, Tail(params))

\* gage.check_params: "ok", or the AttributeError for the first param that is
\* None as an attribute and no key of url_params.
RECURSIVE check_params(_, _, _)
check_params(self, url_params, params) ==
    IF params = <<>> THEN "ok"
    ELSE IF self[Head(params)] = None /\ url_params[Head(params)] = Absent
         THEN "AttributeError:" \o Head(params)
         ELSE check_params(self, url_params, Tail(params))

CheckParams(g) ==
    /\ g \in 1..Len(gages)
    /\ last' = [Idle EXCEPT !.op = "check_params", !.gage = g,
                            !.err = check_params(gages[g], dicts[gages[g].url_params],
                                                 <<"site_code">>)]
    /\ UNCHANGED <<pandas, gages, dicts>>

\* _pandas_no_exist
pandas_no_exist == "ValueError:pandas"

\* "if return_pandas and not pandas: _pandas_no_exist()".  The and short-circuits
\* on a false return_pandas; otherwise the name pandas is looked up, which is a
\* NameError when the import failed (the except clause binds nothing), and a
\* module object, which is true, when it succeeded.
pandas_guard(return_pandas) ==
    IF ~return_pandas THEN "ok"
    ELSE IF ~pandas THEN "NameError:pandas"
    ELSE IF ~ModuleIsTrue THEN pandas_no_exist
    ELSE "ok"

\* gage._retrieve_data with the server answering resp.  url_params is the dict
\* as the call leaves it, urlopen the number of requests issued, json the
\* parsed body (None when the call raised).
retrieve_data(self, d, resp) ==
    LET d1 == [d EXCEPT !["format"] = "json", !["sites"] = self.site_code]
        use_period == /\ Truthy(self.time_period)
                      /\ ~Truthy(self.startDT)
                      /\ d1["startDT"] = Absent
        d2 == IF use_period THEN [d1 EXCEPT !["period"] = self.time_period] ELSE d1
        chk == IF use_period THEN "ok"
               ELSE check_params(self, d1, <<"startDT", "endDT">>)
    IN  IF chk # "ok"
        THEN [err |-> chk, url_params |-> d2, urlopen |-> 0, json |-> None]
        ELSE IF resp \in {"URLError", "HTTPError"}
        THEN [err |-> resp, url_params |-> d2, urlopen |-> 1, json |-> None]
        ELSE IF resp = "notjson"
        THEN [err |-> "JSONDecodeError", url_params |-> d2, urlopen |-> 1, json |-> None]
        ELSE [err |-> "ok", url_params |-> d2, urlopen |-> 1, json |-> resp]

\* gage._json_to_dataframe: the fields time_series and data_frame after it.
json_to_dataframe(self, json, create_pandas) ==
    IF json = "nopath"
    THEN [err |-> "KeyError", time_series |-> self.time_series,
          data_frame |-> self.data_frame]
    ELSE IF ~create_pandas
    THEN [err |-> "ok", time_series |-> json, data_frame |-> self.data_frame]
    ELSE IF DataFrameRaises(json)
    THEN [err |-> "ValueError:DataFrame", time_series |-> json,
          data_frame |-> self.data_frame]
    ELSE [err |-> "ok", time_series |-> json, data_frame |-> DataFrame(json)]

\* gage.retrieve on object self whose url_params dict holds d.
retrieve(self, d, return_pandas, resp) ==
    LET guard == pandas_guard(return_pandas)
        chk == check_params(self, d, <<"site_code">>)
        stored(rd, jd) ==
            [err |-> jd.err,
             self |-> [self EXCEPT !.time_series = jd.time_series,
                                   !.data_frame = jd.data_frame],
             url_params |-> rd.url_params, urlopen |-> rd.urlopen]
        fetched(rd) ==
            IF rd.err # "ok"
            THEN [err |-> rd.err, self |-> self, url_params |-> rd.url_params,
                  urlopen |-> rd.urlopen]
            ELSE stored(rd, json_to_dataframe(self, rd.json, return_pandas))
    IN  IF guard # "ok"
        THEN [err |-> guard, self |-> self, url_params |-> d, urlopen |-> 0]
        ELSE IF chk # "ok"
        THEN [err |-> chk, self |-> self, url_params |-> d, urlopen |-> 0]
        ELSE fetched(retrieve_data(self, d, resp))

Retrieve(g, return_pandas, resp) ==
    /\ g \in 1..Len(gages)
    /\ \E self \in {gages[g]} :
       \E r \in {retrieve(self, dicts[self.url_params], return_pandas, resp)} :
           /\ gages' = [gages EXCEPT ![g] = r.self]
           /\ dicts' = [dicts EXCEPT ![self.url_params] = r.url_params]
           /\ last' = [Idle EXCEPT !.op = "retrieve", !.gage = g,
                                   !.return_pandas = return_pandas,
                                   !.err = r.err, !.urlopen = r.urlopen]
    /\ UNCHANGED pandas

\* retrieve_flow without its "if not gage_id" test.
retrieve_flow_unchecked(gage_id, d, return_pandas, resp) ==
    LET guard == pandas_guard(return_pandas)
        t_gage == NewObject(gage_id, DefaultPeriod, DefaultDict)
        r == retrieve(t_gage, d, return_pandas, resp)
    IN  IF guard # "ok"
        THEN [err |-> guard, constructed |-> FALSE, url_params |-> d, urlopen |-> 0]
        ELSE [err |-> r.err, constructed |-> TRUE, url_params |-> r.url_params,
              urlopen |-> r.urlopen]

\* retrieve_flow: t_gage is local to the call, but the dict it is constructed
\* with is the shared default one.
retrieve_flow(gage_id, d, return_pandas, resp) ==
    LET guard == pandas_guard(return_pandas)
        t_gage == NewObject(gage_id, DefaultPeriod, DefaultDict)
        r == retrieve(t_gage, d, return_pandas, resp)
    IN  IF guard # "ok"
        THEN [err |-> guard, constructed |-> FALSE, url_params |-> d, urlopen |-> 0]
        ELSE IF ~Truthy(gage_id)
        THEN [err |-> "ValueError:gage_id", constructed |-> FALSE, url_params |-> d,
              urlopen |-> 0]
        ELSE [err |-> r.err, constructed |-> TRUE, url_params |-> r.url_params,
              urlopen |-> r.urlopen]

RetrieveFlow(gage_id, return_pandas, resp) ==
    /\ \E r \in {retrieve_flow(gage_id, dicts[DefaultDict], return_pandas, resp)} :
           /\ dicts' = [dicts EXCEPT ![DefaultDict] = r.url_params]
           /\ last' = [Idle EXCEPT !.op = "retrieve_flow", !.gage_id = gage_id,
                                   !.return_pandas = return_pandas,
                                   !.err = r.err, !.urlopen = r.urlopen,
                                   !.constructed = r.constructed]
    /\ UNCHANGED <<pandas, gages>>

Next ==
    \/ \E s \in SiteCodes, p \in Periods, own \in BOOLEAN : NewGage(s, p, own)
    \/ \E g \in 1..MaxGages, v \in SiteCodes : SetAttr(g, "site_code", v)
    \/ \E g \in 1..MaxGages, v \in Periods : SetAttr(g, "time_period", v)
    \/ \E g \in 1..MaxGages, v \in StartDates : SetAttr(g, "startDT", v)
    \/ \E g \in 1..MaxGages, v \in EndDates : SetAttr(g, "endDT", v)
    \/ \E g \in 1..MaxGages, k \in UserKeys : SetParam(g, k)
    \/ \E g \in 1..MaxGages : CheckParams(g)
    \/ \E g \in 1..MaxGages, rp \in BOOLEAN, resp \in Responses : Retrieve(g, rp, resp)
    \/ \E id \in SiteCodes, rp \in BOOLEAN, resp \in Responses : RetrieveFlow(id, rp, resp)

Spec == Init /\ [][Next]_vars

\* The calls on gages that are configured through the constructor and through
\* the site code, as attribute or as url_params key, only; no date range is
\* supplied.  retrieve_flow is called with every kind of gage_id.
SiteResponses == {"URLError", "r1"}

NextSite ==
    \/ \E s \in SiteCodes, p \in Periods, own \in BOOLEAN : NewGage(s, p, own)
    \/ \E g \in 1..MaxGages, v \in SiteCodes : SetAttr(g, "site_code", v)
    \/ \E g \in 1..MaxGages : SetParam(g, "site_code")
    \/ \E g \in 1..MaxGages : CheckParams(g)
    \/ \E g \in 1..MaxGages, rp \in BOOLEAN, resp \in SiteResponses : Retrieve(g, rp, resp)
    \/ \E id \in GageIds, rp \in BOOLEAN, resp \in SiteResponses : RetrieveFlow(id, rp, resp)

SpecSite == Init /\ [][NextSite]_vars

(***************************************************************************)
(* Properties.  last describes the most recent call; the object it was     *)
(* made on and the url_params that object holds are read from the state    *)
(* the call left.                                                          *)
(***************************************************************************)
LastSelf == gages[last.gage]
LastParams == dicts[LastSelf.url_params]
PandasErrors == {"NameError:pandas", "ValueError:pandas"}
DateErrors == {"AttributeError:startDT", "AttributeError:endDT"}
\* The last call was a retrieve() that got as far as _retrieve_data.
Assembled == last.op = "retrieve" /\ last.err \notin PandasErrors \cup {"AttributeError:site_code"}
NoSiteCode == LastSelf.site_code = None /\ LastParams["site_code"] = Absent

\* C1: on a gage whose site_code is None and whose url_params has no
\* "site_code" key, check_params() and retrieve() fail without any urlopen, and
\* the failure is the missing-parameter AttributeError for site_code (for
\* retrieve: whenever the pandas test of its first line lets the call through).
C1_MissingSiteCodeFailsBeforeNetwork ==
    (last.op \in {"check_params", "retrieve"} /\ NoSiteCode) =>
        /\ last.err # "ok"
        /\ last.urlopen = 0
        /\ (last.op = "check_params" \/ ~last.return_pandas \/ pandas)
              => last.err = "AttributeError:site_code"

\* A retrieve() that raises for site_code on a gage an earlier, successful call
\* has already left its keys in.
C1_Witness ==
    /\ last.op = "retrieve"
    /\ NoSiteCode
    /\ last.return_pandas /\ pandas
    /\ LastParams["format"] = "json"
    /\ last.err = "AttributeError:site_code"

\* C2: with time_period set and startDT/endDT given as url_params keys,
\* retrieve() raises no parameter error and the query holds period=<time_period>.
C2_PeriodWinsOverDateKeys ==
    (/\ Assembled
     /\ LastSelf.time_period # None
     /\ LastParams["startDT"] # Absent
     /\ LastParams["endDT"] # Absent) =>
        /\ last.err \notin DateErrors
        /\ LastParams["period"] = LastSelf.time_period

\* C3: with time_period set and no date key in url_params, the query holds
\* period=<time_period>, no startDT/endDT key, and the call does not fail on a
\* missing date parameter.
C3_PeriodUsedWithoutDateKeys ==
    (/\ Assembled
     /\ LastSelf.time_period # None
     /\ LastParams["startDT"] = Absent
     /\ LastParams["endDT"] = Absent) =>
        /\ last.err \notin DateErrors
        /\ LastParams["period"] = LastSelf.time_period

\* C4: a retrieve() made while time_period is None and startDT and endDT are
\* both supplied (attribute or key) assembles a query without a period key,
\* whatever calls came before.
C4_NoPeriodWithDateRange ==
    (/\ Assembled
     /\ LastSelf.time_period = None
     /\ (LastSelf.startDT # None \/ LastParams["startDT"] # Absent)
     /\ (LastSelf.endDT # None \/ LastParams["endDT"] # Absent)) =>
        LastParams["period"] = Absent

\* C5: a retrieve() on one instance (here retrieve_flow's t_gage) leaves the
\* url_params of every other gage constructed without url_params as it was.
C5_DefaultParamsNotShared ==
    [][last'.op = "retrieve_flow" =>
          \A g \in 1..Len(gages) :
              gages[g].url_params = DefaultDict =>
                  dicts'[gages'[g].url_params] = dicts[gages[g].url_params]]_vars

\* C6: retrieve(return_pandas=True) without pandas fails with the error of
\* _pandas_no_exist, issues no request and changes no field of the gage.
C6_PandasMissingDedicatedError ==
    [][(last'.op = "retrieve" /\ last'.return_pandas /\ ~pandas) =>
          /\ last'.err = pandas_no_exist
          /\ last'.urlopen = 0
          /\ UNCHANGED <<gages, dicts>>]_vars

\* C7 as claimed: retrieve_flow with an absent gage_id fails with the
\* missing-parameter error whatever return_pandas and pandas are, with no gage
\* constructed and no request issued.
C7_Original ==
    (last.op = "retrieve_flow" /\ ~Truthy(last.gage_id)) =>
        /\ last.err = "ValueError:gage_id"
        /\ ~last.constructed
        /\ last.urlopen = 0

\* C7 (amended): retrieve_flow with an absent gage_id always fails with no gage
\* constructed and no request issued; the failure is the missing-parameter
\* error whenever return_pandas is false or pandas was imported (the pandas
\* test comes first).
C7_AbsentGageIdFails ==
    (last.op = "retrieve_flow" /\ ~Truthy(last.gage_id)) =>
        /\ last.err # "ok"
        /\ ~last.constructed
        /\ last.urlopen = 0
        /\ (~last.return_pandas \/ pandas) => last.err = "ValueError:gage_id"

C7_Witness ==
    /\ last.op = "retrieve_flow"
    /\ last.gage_id = None
    /\ last.return_pandas /\ pandas
    /\ last.err = "ValueError:gage_id"

\* C8: a retrieve() that fails leaves time_series and data_frame as they were.
C8_FailureKeepsResults ==
    [][(last'.op = "retrieve" /\ last'.err # "ok") =>
          /\ gages'[last'.gage].time_series = gages[last'.gage].time_series
          /\ gages'[last'.gage].data_frame = gages[last'.gage].data_frame]_vars

\* C9: every request retrieve() issues carries format=json, sites=<an actual
\* site code> and a time window: period=<time_period> or startDT and endDT.
C9_RequestCarriesSiteAndWindow ==
    (last.op = "retrieve" /\ last.urlopen = 1) =>
        /\ LastParams["format"] = "json"
        /\ LastParams["sites"] \notin {Absent, None}
        /\ \/ LastParams["period"] # Absent /\ LastParams["period"] = LastSelf.time_period
           \/ LastParams["startDT"] # Absent /\ LastParams["endDT"] # Absent

\* C10: after a successful retrieve(), data_frame is None or the frame built
\* from the current time_series.
C10_FrameMatchesSeries ==
    (last.op = "retrieve" /\ last.err = "ok") =>
        \/ LastSelf.data_frame = NoFrame
        \/ LastSelf.data_frame = DataFrame(LastSelf.time_series)
====
